---- MODULE Spec2Model ----
(***************************************************************************)
(* Model of MHScrapper (src/src/extraction_script.py): the pagination and  *)
(* extraction loop of scrape_mh_data, the per-row extraction into the      *)
(* seven collections, and the browser session it drives.                   *)
(*                                                                         *)
(* The browser is the environment.  A listing has numPages pages of        *)
(* rowsPerPage rows; the action element of row r of page p is <<p, r>>,    *)
(* and every attribute of every element holds a value of its own.  Every   *)
(* browser call may raise; a transient failure consumes one unit of the    *)
(* fault budget, a failed initial navigation (loaded = FALSE) is           *)
(* persistent.                                                             *)
(***************************************************************************)
EXTENDS Integers, Sequences, FiniteSets, TLC

\* ---- bounds of the model ----
MaxPages == 5
MaxRows == 2
MaxStart == 3
MaxFaults == 1

\* ---- values ----
\* Python's None as returned by get_attribute for a missing attribute (raw
\* values are numbered from 1)
None == 0
\* stop_page = None (page numbers start at 1)
NoStopPage == 0
\* get_page_table's results
NoTable == "None"
HospTable == "hosp"

VARIABLES
    \* constructor arguments and the listing served by the site
    test, start_page, stop_page, numPages,
    \* browser session
    loaded, browserPage,
    \* MHScrapper instance state
    current_page, page_rows, identifiers, locations, contacts, status,
    services, personnel,
    \* position in scrape_mh_data and its locals
    pc, page_table, buttons, row_num,
    \* history: origin[k][i] is the element collection k's i-th record was
    \* read from; clickedAt is the set of current_page values at which the
    \* next-page control was activated; attempted lists the elements handed
    \* to extract_data in the current extract_view_buttons_data call;
    \* row_failed those of them whose extraction raised
    origin, clickedAt, faults, attempted, row_failed, iter_error, stopped_by

config == <<test, start_page, stop_page, numPages>>
collections == <<page_rows, identifiers, locations, contacts, status, services, personnel>>
vars == <<config, loaded, browserPage, current_page, collections, pc, page_table,
          buttons, row_num, origin, clickedAt, faults, attempted, row_failed,
          iter_error, stopped_by>>

Kinds == <<"page_rows", "identifiers", "locations", "contacts", "status", "services", "personnel">>
KindSet == {Kinds[i] : i \in 1..Len(Kinds)}

\* ---- the page as the browser exposes it ----
\* the listing served: the element of the first row lacks data-id on odd pages
\* and data-website on even pages; every other attribute of every element is set
AttributePresent(button_elem, name) ==
    ~(button_elem[2] = 1 /\ name = (IF button_elem[1] % 2 = 1 THEN "data-id" ELSE "data-website"))

\* the data attributes the scraper reads (lines 158-310), in order of first use
AttributeNames ==
    <<"data-id", "data-unique_id", "data-state_unique_id",
       "data-registration_no", "data-facility_name",
       "data-alt_facility_name", "data-start_date", "data-ownership",
       "data-ownership_type", "data-facility_level",
       "data-facility_level_option", "data-operational_days",
       "data-operational_hours", "data-state", "data-lga", "data-ward",
       "data-physical_location", "data-postal_address", "data-longitude",
       "data-latitude", "data-phone_number", "data-alternate_number",
       "data-email_address", "data-website", "data-operation_status",
       "data-registration_status", "data-license_status", "data-outpatient",
       "data-ambulance_services", "data-mortuary_services",
       "data-onsite_imaging", "data-onsite_pharmarcy",
       "data-onsite_laboratory", "data-beds", "data-specialservice",
       "data-dental", "data-pediatrics", "data-gyn", "data-surgical",
       "data-medical", "data-inpatient", "data-doctors", "data-pharmacists",
       "data-midwifes", "data-nurses", "data-nurse_midwife",
       "data-pharmacy_technicians", "data-dentist", "data-attendants",
       "data-env_health_officers", "data-him_officers",
       "data-community_health_officer",
       "data-jun_community_extension_worker",
       "data-community_extension_workers", "data-dental_technicians",
       "data-lab_technicians", "data-lab_scientists" >>

AttributeNo ==
    [name \in {AttributeNames[i] : i \in 1..Len(AttributeNames)} |->
        CHOOSE i \in 1..Len(AttributeNames) : AttributeNames[i] = name]

\* the raw string held by attribute `name` of an element, as a number of its
\* own: no two attributes of the listing hold the same value
RawValue(button_elem, name) ==
    (button_elem[1] * (MaxRows + 1) + button_elem[2]) * (Len(AttributeNames) + 1)
        + AttributeNo[name]

\* WebElement.get_attribute: the raw value, or None when the attribute is absent
GetAttribute(button_elem, name) ==
    IF AttributePresent(button_elem, name) THEN RawValue(button_elem, name) ELSE None

\* every page of the listing shows the same number of rows ("entries_per_page"
\* in the URL, line 22)
rowsPerPage == MaxRows

\* the action elements of the rows of page p, in document order
PageButtons(p) == IF p \in 1..numPages THEN [r \in 1..rowsPerPage |-> <<p, r>>] ELSE <<>>

\* the pagination control shows the "next" link on every page but the last
HasNextLink(p) == p < numPages

\* get_identifiers (lines 158-182)
get_identifiers(button_elem) ==
    [ facility_uid |-> GetAttribute(button_elem, "data-id"),
      facility_code |-> GetAttribute(button_elem, "data-unique_id"),
      state_unique_id |-> GetAttribute(button_elem, "data-state_unique_id"),
      registration_no |-> GetAttribute(button_elem, "data-registration_no"),
      facility_name |-> GetAttribute(button_elem, "data-facility_name"),
      alternate_name |-> GetAttribute(button_elem, "data-alt_facility_name"),
      start_date |-> GetAttribute(button_elem, "data-start_date"),
      ownership |-> GetAttribute(button_elem, "data-ownership"),
      ownership_type |-> GetAttribute(button_elem, "data-ownership_type"),
      facility_level |-> GetAttribute(button_elem, "data-facility_level"),
      facility_level_option |-> GetAttribute(button_elem, "data-facility_level_option"),
      days_of_operation |-> GetAttribute(button_elem, "data-operational_days"),
      hours_of_operation |-> GetAttribute(button_elem, "data-operational_hours") ]

\* get_location (lines 184-200)
get_location(button_elem) ==
    [ facility_uid |-> GetAttribute(button_elem, "data-id"),
      state |-> GetAttribute(button_elem, "data-state"),
      lga |-> GetAttribute(button_elem, "data-lga"),
      ward |-> GetAttribute(button_elem, "data-ward"),
      physical_location |-> GetAttribute(button_elem, "data-physical_location"),
      postal_address |-> GetAttribute(button_elem, "data-postal_address"),
      longitude |-> GetAttribute(button_elem, "data-longitude"),
      latitude |-> GetAttribute(button_elem, "data-latitude") ]

\* variant: get_contacts taking facility_uid from the facility code attribute
get_contacts_UidFromCode(button_elem) ==
    [ facility_uid |-> GetAttribute(button_elem, "data-unique_id"),
      phone_number |-> GetAttribute(button_elem, "data-phone_number"),
      alternate_number |-> GetAttribute(button_elem, "data-alternate_number"),
      email_address |-> GetAttribute(button_elem, "data-email_address"),
      website |-> GetAttribute(button_elem, "data-website") ]

\* get_contacts (lines 202-215)
get_contacts(button_elem) ==
    [ facility_uid |-> GetAttribute(button_elem, "data-id"),
      phone_number |-> GetAttribute(button_elem, "data-phone_number"),
      alternate_number |-> GetAttribute(button_elem, "data-alternate_number"),
      email_address |-> GetAttribute(button_elem, "data-email_address"),
      website |-> GetAttribute(button_elem, "data-website") ]

\* get_status (lines 217-230)
get_status(button_elem) ==
    [ facility_uid |-> GetAttribute(button_elem, "data-id"),
      operation_status |-> GetAttribute(button_elem, "data-operation_status"),
      registration_status |-> GetAttribute(button_elem, "data-registration_status"),
      license_status |-> GetAttribute(button_elem, "data-license_status") ]

\* get_services (lines 232-258)
get_services(button_elem) ==
    [ facility_uid |-> GetAttribute(button_elem, "data-id"),
      outpatient_service |-> GetAttribute(button_elem, "data-outpatient"),
      ambulance_services |-> GetAttribute(button_elem, "data-ambulance_services"),
      mortuary_services |-> GetAttribute(button_elem, "data-mortuary_services"),
      onsite_imaging |-> GetAttribute(button_elem, "data-onsite_imaging"),
      onsite_pharmarcy |-> GetAttribute(button_elem, "data-onsite_pharmarcy"),
      onsite_laboratory |-> GetAttribute(button_elem, "data-onsite_laboratory"),
      tot_num_beds |-> GetAttribute(button_elem, "data-beds"),
      special_service |-> GetAttribute(button_elem, "data-specialservice"),
      dental_service |-> GetAttribute(button_elem, "data-dental"),
      pediatrics_service |-> GetAttribute(button_elem, "data-pediatrics"),
      gynecology_service |-> GetAttribute(button_elem, "data-gyn"),
      surgical_service |-> GetAttribute(button_elem, "data-surgical"),
      medical_service |-> GetAttribute(button_elem, "data-medical"),
      inpatient_service |-> GetAttribute(button_elem, "data-inpatient") ]

\* get_personnel (lines 260-292)
get_personnel(button_elem) ==
    [ facility_uid |-> GetAttribute(button_elem, "data-id"),
      num_of_docs |-> GetAttribute(button_elem, "data-doctors"),
      num_of_pharms |-> GetAttribute(button_elem, "data-pharmacists"),
      num_of_midwifes |-> GetAttribute(button_elem, "data-midwifes"),
      num_of_nurses |-> GetAttribute(button_elem, "data-nurses"),
      num_of_nurse_midwife |-> GetAttribute(button_elem, "data-nurse_midwife"),
      num_of_pharm_technicians |-> GetAttribute(button_elem, "data-pharmacy_technicians"),
      num_of_dentists |-> GetAttribute(button_elem, "data-dentist"),
      num_of_health_attendants |-> GetAttribute(button_elem, "data-attendants"),
      num_of_env_health_officers |-> GetAttribute(button_elem, "data-env_health_officers"),
      num_of_him_officers |-> GetAttribute(button_elem, "data-him_officers"),
      num_of_community_health_officer |-> GetAttribute(button_elem, "data-community_health_officer"),
      num_of_jun_community_extension_worker |-> GetAttribute(button_elem, "data-jun_community_extension_worker"),
      num_of_community_extension_workers |-> GetAttribute(button_elem, "data-community_extension_workers"),
      num_of_dental_technicians |-> GetAttribute(button_elem, "data-dental_technicians"),
      num_of_lab_technicians |-> GetAttribute(button_elem, "data-lab_technicians"),
      num_of_lab_scientists |-> GetAttribute(button_elem, "data-lab_scientists") ]

\* get_page_rows (lines 294-310)
get_page_rows(button_elem) ==
    [ state |-> GetAttribute(button_elem, "data-state"),
      lga |-> GetAttribute(button_elem, "data-lga"),
      ward |-> GetAttribute(button_elem, "data-ward"),
      facility_uid |-> GetAttribute(button_elem, "data-id"),
      facility_code |-> GetAttribute(button_elem, "data-unique_id"),
      facility_name |-> GetAttribute(button_elem, "data-facility_name"),
      facility_level |-> GetAttribute(button_elem, "data-facility_level"),
      ownership |-> GetAttribute(button_elem, "data-ownership") ]

\* ---- scrape_mh_data ----
\* __init__ (lines 40-64): empty collections, current_page = start_page, the
\* browser navigated to "...&page=<start_page>"; a navigation error is logged
\* and construction goes on with a session that shows no listing.
Init ==
    /\ test \in BOOLEAN
    /\ numPages \in 1..MaxPages
    /\ start_page \in 1..MaxStart
    /\ start_page <= numPages
    \* a stop page before the start page or past the last page is never reached
    /\ stop_page \in {NoStopPage} \cup (start_page..numPages)
    /\ loaded \in BOOLEAN
    /\ browserPage = IF loaded THEN start_page ELSE 0
    /\ current_page = start_page
    /\ page_rows = <<>> /\ identifiers = <<>> /\ locations = <<>> /\ contacts = <<>>
    /\ status = <<>> /\ services = <<>> /\ personnel = <<>>
    /\ pc = "get_page_table"
    /\ page_table = "unset"
    /\ buttons = <<>>
    /\ row_num = 1
    /\ origin = [k \in KindSet |-> <<>>]
    /\ clickedAt = {}
    /\ faults = 0
    /\ attempted = <<>>
    /\ row_failed = <<>>
    /\ iter_error = FALSE
    /\ stopped_by = ""

\* a browser call misbehaves: bounded by the fault budget
Fault == faults < MaxFaults /\ faults' = faults + 1

\* line 98-99: "except Exception" of the page loop logs and starts the next
\* iteration of "while True"
IterError == pc' = "get_page_table" /\ iter_error' = TRUE

\* get_page_table (lines 107-114), called at line 78
get_page_table ==
    /\ pc = "get_page_table"
    /\ \/ loaded /\ page_table' = HospTable /\ faults' = faults
       \/ ~loaded /\ page_table' = NoTable /\ faults' = faults
       \/ loaded /\ Fault /\ page_table' = NoTable
    /\ pc' = "get_table_body"
    /\ UNCHANGED <<config, loaded, browserPage, current_page, collections, buttons,
                   row_num, origin, clickedAt, attempted, row_failed, iter_error,
                   stopped_by>>

\* variant: a get_table_body that goes on when handed None
GetTableBodyRaises_NoneAccepted(table) == FALSE

\* line 118 on the value get_page_table returned: None has no find_element
GetTableBodyRaises(table) == table = NoTable

\* get_table_body (lines 116-119), called at line 79
get_table_body ==
    /\ pc = "get_table_body"
    /\ \/ GetTableBodyRaises(page_table) /\ IterError /\ faults' = faults
       \/ ~GetTableBodyRaises(page_table) /\ pc' = "get_page_view_buttons"
          /\ UNCHANGED <<faults, iter_error>>
       \/ ~GetTableBodyRaises(page_table) /\ Fault /\ IterError
    /\ UNCHANGED <<config, loaded, browserPage, current_page, collections, page_table,
                   buttons, row_num, origin, clickedAt, attempted, row_failed,
                   stopped_by>>

\* get_page_view_buttons (lines 121-124), called at line 82, and the entry of
\* extract_view_buttons_data (line 127)
get_page_view_buttons ==
    /\ pc = "get_page_view_buttons"
    /\ \/ /\ buttons' = PageButtons(browserPage)
          /\ row_num' = 1
          /\ attempted' = <<>>
          /\ row_failed' = <<>>
          /\ pc' = IF PageButtons(browserPage) = <<>> THEN "check" ELSE "extract"
          /\ UNCHANGED <<faults, iter_error>>
       \/ /\ Fault /\ IterError
          /\ UNCHANGED <<buttons, row_num, attempted, row_failed>>
    /\ UNCHANGED <<config, loaded, browserPage, current_page, collections, page_table,
                   origin, clickedAt, stopped_by>>

\* position of a collection in the call order of extract_data (lines 138-144)
KindIndex(k) == CHOOSE i \in 1..Len(Kinds) : Kinds[i] = k

\* the calls of extract_data taken to raise: the first (nothing appended yet)
\* and the last (every collection but personnel appended)
FailCalls == {1, Len(Kinds)}

\* extract_data with its failAt-th call raising (0: none raises): every get_*
\* reads its attributes first and appends last, so the calls before the
\* failing one have appended and the others have not
Appends(k, failAt) == failAt = 0 \/ KindIndex(k) < failAt

\* variant: the try around the for loop, so that a raising element ends it
ButtonsAfter_AbortOnRaise(bs, raised) == IF raised THEN <<>> ELSE Tail(bs)

\* the elements left to the for loop of extract_view_buttons_data (lines
\* 128-135) after one pass: the try is inside the loop
ButtonsAfter(bs, raised) == Tail(bs)

\* one pass of the for loop of extract_view_buttons_data (lines 128-135) with
\* extract_data (lines 137-144) on the element
extract_data ==
    /\ pc = "extract"
    /\ buttons # <<>>
    /\ \E failAt \in {0} \cup FailCalls :
        LET button_elem == Head(buttons)
            App(coll, k, rec) == IF Appends(k, failAt) THEN Append(coll, rec) ELSE coll
        IN  /\ IF failAt = 0 THEN faults' = faults ELSE Fault
            /\ page_rows' = App(page_rows, "page_rows", get_page_rows(button_elem))
            /\ identifiers' = App(identifiers, "identifiers", get_identifiers(button_elem))
            /\ locations' = App(locations, "locations", get_location(button_elem))
            /\ contacts' = App(contacts, "contacts", get_contacts(button_elem))
            /\ status' = App(status, "status", get_status(button_elem))
            /\ services' = App(services, "services", get_services(button_elem))
            /\ personnel' = App(personnel, "personnel", get_personnel(button_elem))
            /\ origin' = [k \in KindSet |-> App(origin[k], k, button_elem)]
            /\ row_num' = IF failAt = 0 THEN row_num + 1 ELSE row_num
            /\ attempted' = Append(attempted, button_elem)
            /\ row_failed' = IF failAt = 0 THEN row_failed ELSE Append(row_failed, button_elem)
            /\ buttons' = ButtonsAfter(buttons, failAt # 0)
            /\ pc' = IF ButtonsAfter(buttons, failAt # 0) = <<>> THEN "check" ELSE "extract"
    /\ UNCHANGED <<config, loaded, browserPage, current_page, page_table, clickedAt,
                   iter_error, stopped_by>>

\* variants: the test stop condition with another remainder or modulus
TestStop_Mod0(page) == test = TRUE /\ page % 3 = 0

TestStop_Mod5(page) == test = TRUE /\ page % 5 = 4

\* line 85: the test stop condition
TestStop(page) == test = TRUE /\ page % 3 = 2

\* variant: the stop page condition one page late
StopPageReached_OffByOne(page) == stop_page # NoStopPage /\ page = stop_page + 1

\* line 89: the stop page condition
StopPageReached(page) == stop_page # NoStopPage /\ page = stop_page

\* lines 85-91: the two stop checks after the page's rows were extracted
stop_check ==
    /\ pc = "check"
    /\ IF TestStop(current_page)
         THEN pc' = "done" /\ stopped_by' = "test"
         ELSE IF StopPageReached(current_page)
                THEN pc' = "done" /\ stopped_by' = "stop_page"
                ELSE pc' = "get_next_page" /\ stopped_by' = stopped_by
    /\ UNCHANGED <<config, loaded, browserPage, current_page, collections, page_table,
                   buttons, row_num, origin, clickedAt, faults, attempted, row_failed,
                   iter_error>>

\* variant: a get_next_page without its except clause
CaughtByGetNextPage_Nothing(exc) == FALSE

\* line 154: the only exception get_next_page handles
CaughtByGetNextPage(exc) == exc = "NoSuchElementException"

\* an exception raised inside the try of get_next_page (lines 148-156): caught
\* there it makes get_next_page return False and line 96-97 breaks the loop,
\* otherwise it reaches the page loop's handler
RaisedInTry(exc, why) ==
    IF CaughtByGetNextPage(exc)
      THEN pc' = "done" /\ stopped_by' = why /\ iter_error' = iter_error
      ELSE IterError /\ stopped_by' = stopped_by

\* get_next_page (lines 146-156), called at line 94, and lines 96-97
get_next_page ==
    /\ pc = "get_next_page"
    /\ \/ \* line 147 raises, outside the try
          /\ Fault /\ IterError
          /\ UNCHANGED <<browserPage, current_page, clickedAt, stopped_by>>
       \/ \* line 149: no "next" link on the last page
          /\ ~HasNextLink(browserPage)
          /\ RaisedInTry("NoSuchElementException", "last_page")
          /\ UNCHANGED <<browserPage, current_page, clickedAt, faults>>
       \/ \* line 149: the link is there but the lookup does not find it
          /\ HasNextLink(browserPage) /\ Fault
          /\ RaisedInTry("NoSuchElementException", "link_not_found")
          /\ UNCHANGED <<browserPage, current_page, clickedAt>>
       \/ \* lines 151-153: click, the browser shows the next page
          /\ HasNextLink(browserPage)
          /\ browserPage' = browserPage + 1
          /\ current_page' = current_page + 1
          /\ clickedAt' = clickedAt \cup {current_page}
          /\ pc' = "get_page_table"
          /\ UNCHANGED <<faults, iter_error, stopped_by>>
       \/ \* line 151: click raises before the browser navigates
          /\ HasNextLink(browserPage) /\ Fault
          /\ clickedAt' = clickedAt \cup {current_page}
          /\ RaisedInTry("ElementClickInterceptedException", "")
          /\ UNCHANGED <<browserPage, current_page>>
    /\ UNCHANGED <<config, loaded, collections, page_table, buttons, row_num, origin,
                   attempted, row_failed>>

Next ==
    \/ get_page_table
    \/ get_table_body
    \/ get_page_view_buttons
    \/ extract_data
    \/ stop_check
    \/ get_next_page

Spec == Init /\ [][Next]_vars

\* the interpreter runs the single thread on: a step that can be taken is taken
FairSpec == Spec /\ WF_vars(Next)

\* the run with a browser that never misbehaves: the listing is loaded and no
\* call fails
NominalInit == Init /\ loaded

NominalNext ==
    \/ get_page_table /\ faults' = faults
    \/ get_table_body /\ faults' = faults
    \/ get_page_view_buttons /\ faults' = faults
    \/ extract_data /\ faults' = faults
    \/ stop_check /\ faults' = faults
    \/ get_next_page /\ faults' = faults

NominalSpec == NominalInit /\ [][NominalNext]_vars /\ WF_vars(NominalNext)

\* ---- properties ----
Collection(k) ==
    CASE k = "page_rows" -> page_rows
      [] k = "identifiers" -> identifiers
      [] k = "locations" -> locations
      [] k = "contacts" -> contacts
      [] k = "status" -> status
      [] k = "services" -> services
      [] k = "personnel" -> personnel

\* a browser call has misbehaved in this run
failed == faults > 0 \/ ~loaded

\* the pages collection k holds records of, and the pages any collection does
PagesOf(k) == {origin[k][i][1] : i \in 1..Len(origin[k])}
PagesExtracted == UNION {PagesOf(k) : k \in KindSet}

RECURSIVE ButtonsOfPages(_, _)
\* the action elements of pages from..to, in page and row order
ButtonsOfPages(from, to) ==
    IF from > to THEN <<>> ELSE PageButtons(from) \o ButtonsOfPages(from + 1, to)

NoDuplicates(seq) == \A i, j \in 1..Len(seq) : seq[i] = seq[j] => i = j

C1Pre == test = FALSE /\ stop_page # NoStopPage /\ stop_page > start_page /\ numPages >= stop_page

C1Safe ==
    C1Pre =>
        /\ stop_page \notin clickedAt
        /\ browserPage <= stop_page /\ current_page <= stop_page
        /\ PagesExtracted \subseteq start_page..stop_page
        /\ pc = "check" =>
               \A k \in KindSet : origin[k] = ButtonsOfPages(start_page, current_page)
        /\ pc = "done" =>
               /\ stopped_by = "stop_page"
               /\ current_page = stop_page
               /\ \A k \in KindSet : origin[k] = ButtonsOfPages(start_page, stop_page)

\* C1: with a browser that never fails, in non-test mode with stop page
\* S > start page P on a listing of at least S pages: the next-page control is
\* never activated while current_page = S and no page beyond S is loaded or
\* extracted; every stop check is reached with exactly the rows of pages
\* P..current_page appended, in order, to each collection; and the run
\* eventually returns, by the stop-page condition, with the rows of pages P..S.
C1_StopPageBoundsRun == [](C1Safe) /\ (C1Pre => <>(pc = "done"))

C1_Witness ==
    /\ C1Pre /\ ~failed /\ pc = "done" /\ stop_page = start_page + 2
    /\ numPages > stop_page
    /\ clickedAt = {start_page, start_page + 1}
    /\ Len(page_rows) = 3 * rowsPerPage

C2Pre == test = TRUE /\ start_page = 1

\* C2: in test mode with start page 1 the browser never shows page 3, the
\* next-page control is never activated at page 2, every record comes from
\* page 1 or page 2, and a run ended by the test stop condition ended at page 2.
C2_TestModeFromPageOne ==
    C2Pre =>
        /\ browserPage <= 2 /\ current_page <= 2
        /\ 2 \notin clickedAt
        /\ PagesExtracted \subseteq {1, 2}
        /\ stopped_by = "test" => (pc = "done" /\ current_page = 2)
        /\ (pc = "done" /\ ~failed /\ numPages >= 2 /\ stop_page # 1) =>
               /\ stopped_by = "test"
               /\ \A k \in KindSet : origin[k] = ButtonsOfPages(1, 2)

C2_Witness ==
    /\ C2Pre /\ pc = "done" /\ stopped_by = "test" /\ numPages >= 3
    /\ PagesExtracted = {1, 2}

\* C3 as stated: a test-mode run extracts rows from at most 2 distinct pages,
\* whatever the start page.
C3_AtMostTwoPages == test = TRUE => Cardinality(PagesExtracted) <= 2

\* C3: a test-mode run extracts rows from at most 3 distinct pages, whatever
\* the start page, and from consecutive pages beginning at the start page.
C3_AtMostThreePages ==
    test = TRUE =>
        /\ Cardinality(PagesExtracted) <= 3
        /\ PagesExtracted \subseteq start_page..(start_page + 2)
        /\ current_page <= start_page + 2

C3_Witness ==
    /\ test = TRUE /\ start_page = 3 /\ pc = "done" /\ stopped_by = "test"
    /\ PagesExtracted = {3, 4, 5}

C4Pre == numPages = 1 /\ stop_page # 1 /\ ~failed

\* C4: on a one-page listing, with the browser working, the missing "next"
\* link never logs an iteration error; the run ends because get_next_page
\* returned False, with every row of the page extracted once into each
\* collection, so the collections are not empty.
C4_OnePageListing ==
    C4Pre =>
        /\ ~iter_error
        /\ pc = "done" =>
               /\ stopped_by = "last_page"
               /\ \A k \in KindSet : origin[k] = PageButtons(1) /\ Collection(k) # <<>>

C4_Witness ==
    /\ C4Pre /\ pc = "done" /\ stopped_by = "last_page"
    /\ Len(page_rows) = rowsPerPage /\ Len(personnel) = rowsPerPage

\* C5 as stated: whatever the browser does, scrape_mh_data eventually leaves
\* its loop and returns.
C5_RunAlwaysReturns == <>(pc = "done")

\* C6 as stated: when extract_data raises for an element, no collection gains
\* a record from that element.
C6_FailedRowLeavesNoRecord ==
    [][Len(row_failed') > Len(row_failed) => collections' = collections]_vars

\* C7 as stated: no collection holds two records of the same row of the same page.
C7_EachRecordOnce == \A k \in KindSet : NoDuplicates(origin[k])

C8Step ==
    \A k \in KindSet :
        \/ Collection(k)' = Collection(k)
        \/ /\ pc = "extract"
           /\ Len(Collection(k)') = Len(Collection(k)) + 1
           /\ SubSeq(Collection(k)', 1, Len(Collection(k))) = Collection(k)
           /\ Collection(k)'[Len(Collection(k)')].facility_uid
                  = GetAttribute(Head(buttons), "data-id")

\* C8: a collection changes only by gaining, in a pass of the extraction loop,
\* one record whose facility_uid is the data-id value of the element being
\* extracted, or None when the element has no data-id; so the records made
\* from one element in that pass all carry the same facility_uid.
C8_SameFacilityUid == [][C8Step]_vars

C8_Witness ==
    /\ pc = "done" /\ Len(personnel) >= 2 /\ Len(contacts) = Len(page_rows)
    /\ \E i \in 1..Len(contacts) : contacts[i].facility_uid = None
    /\ \E i \in 1..Len(contacts) : contacts[i].facility_uid # None

C9Step ==
    pc = "extract" =>
        /\ attempted' = Append(attempted, Head(buttons))
        /\ buttons' = Tail(buttons)
        /\ pc' = IF Tail(buttons) = <<>> THEN "check" ELSE "extract"
        /\ iter_error' = iter_error
        /\ current_page' = current_page

\* C9: every pass of the for loop of extract_view_buttons_data, raising or
\* not, hands the next element in document order to extract_data, goes on
\* with the elements after it and reaches the stop check after the last one,
\* without an iteration error of the page loop.
C9_RowFailureDoesNotAbort == [][C9Step]_vars

C9_Witness ==
    /\ pc = "check" /\ Len(row_failed) = 1 /\ rowsPerPage >= 2
    /\ row_failed[1] = <<browserPage, 1>>
    /\ attempted = PageButtons(browserPage)
    /\ ~iter_error

C10Step ==
    (page_table' = NoTable \/ (pc = "get_table_body" /\ page_table = NoTable)) =>
        /\ current_page' = current_page
        /\ collections' = collections
        /\ browserPage' = browserPage
        /\ pc = "get_table_body" => pc' = "get_page_table"

\* C10: when get_page_table returns None, the iteration ends in get_table_body
\* and the loop is back at its head with current_page, the seven collections
\* and the page shown unchanged.
C10_NoTableRetriesSameState == [][C10Step]_vars

C10_Witness ==
    /\ pc = "get_page_table" /\ page_table = NoTable /\ iter_error
    /\ loaded /\ page_rows # <<>>

====
